---- MODULE Spec2Model ----
(***************************************************************************)
(* Semantic-segmentation backend: the segmentation post-processing         *)
(* pipeline of backend/models/segmentation.py and the two request handlers *)
(* of backend/main.py that call it.                                        *)
(*                                                                         *)
(* An image is a record [w, h, ch, px]: px maps <<row, column>> to the     *)
(* sequence of the pixel's ch channel values.  A numpy array of shape      *)
(* (h, w) is an image with ch = 1, one of shape (h, w, c) has ch = c.      *)
(* ch = 0 stands for "no image" (None / not yet assigned).                 *)
(***************************************************************************)
EXTENDS Integers, Sequences, FiniteSets, TLC

\* ------------------------------------------------------------------ bounds
\* Largest width and height of an input image.
MaxDim == 2
\* Side of the model's working resolution (stands for the 520 of Resize).
WorkRes == 2
\* Largest class id the opaque model emits.
MaxClassId == 22
\* Number of outcomes sampled from the range of one random draw.
RandSamples == 2

\* ------------------------------------------------------------- helpers
SetMax(S) == CHOOSE m \in S : \A x \in S : x <= m

SetMin(S) == CHOOSE m \in S : \A x \in S : m <= x

Cells(h, w) == (1..h) \X (1..w)

NoImage == [w |-> 0, h |-> 0, ch |-> 0, px |-> << >>]

NoClassMap == << >>

\* -------------------------------------------------------------- inputs
\* Pixel content of an input image: seed 0 is the all-black image.
PixelSeeds == {0, 85}

MkImage(w, h, c, seed) ==
    [w |-> w, h |-> h, ch |-> c,
     px |-> [p \in Cells(h, w) |->
                [k \in 1..c |-> (seed * (p[1] + 2 * p[2] + 3 * k)) % 256]]]

\* PIL modes L, LA, RGB, RGBA by their channel count.
Channels == 1..4

\* The images a caller may hand to segment_image: any mode, any size up to
\* MaxDim (Image.new allows zero area), any sampled content.
AnyImage == [dims |-> 0..MaxDim, chans |-> Channels, seeds |-> PixelSeeds]

\* The images decoded from an uploaded or downloaded file: positive size.
DecodedImage == [dims |-> 1..MaxDim, chans |-> Channels, seeds |-> PixelSeeds]

\* Class maps of the opaque model: a WorkRes x WorkRes grid over ids a and b.
MkClassMap(a, b) ==
    [p \in Cells(WorkRes, WorkRes) |-> IF (p[1] + p[2]) % 2 = 0 THEN a ELSE b]

\* ---------------------------------------------------- create_colored_mask
FixedColors ==
    << <<0, 0, 0>>, <<128, 0, 0>>, <<0, 128, 0>>, <<128, 128, 0>>,
       <<0, 0, 128>>, <<128, 0, 128>>, <<0, 128, 128>>, <<128, 128, 128>>,
       <<64, 0, 0>>, <<192, 0, 0>>, <<64, 128, 0>>, <<192, 128, 0>>,
       <<64, 0, 128>>, <<192, 0, 128>>, <<64, 128, 128>>, <<192, 128, 128>>,
       <<0, 64, 0>>, <<128, 64, 0>>, <<0, 192, 0>>, <<128, 192, 0>>,
       <<0, 64, 128>> >>

NumFixed == Len(FixedColors)

\* The class ids the sampled class maps are made of.
ClassIdSample == {c \in 0..MaxClassId : c \in {0, 15} \/ c >= NumFixed - 1}

\* np.random.randint(low, high): the integers from low up to high - 1.
randint(low, high) == low..(high - 1)

\* The least and the greatest outcome of np.random.randint(0, 255).
DrawLow == SetMin(randint(0, 255))

DrawHigh == SetMax(randint(0, 255))

\* The outcomes of one draw that the model follows: RandSamples values spread
\* evenly over the range of the draw, its least (i = 0) and greatest
\* (i = RandSamples - 1) value included.
SampleValue(i) == DrawLow + (i * (DrawHigh - DrawLow)) \div (RandSamples - 1)

\* The sampled outcomes of [np.random.randint(0, 255) for _ in range(3)]:
\* outcome i takes the samples i, i + 1, i + 2 for its three channels.
RandColor(i) ==
    <<SampleValue(i % RandSamples), SampleValue((i + 1) % RandSamples),
      SampleValue((i + 2) % RandSamples)>>

\* predictions.max()
MaxOf(predictions) == SetMax({predictions[p] : p \in DOMAIN predictions})

\* Number of random colors the extension loop draws for a largest id mx.
NeededDraws(mx) == IF mx >= NumFixed THEN mx + 1 - NumFixed ELSE 0

RECURSIVE ExtendColorsOffByOne(_, _, _)
\* The extension loop with `<` for `<=`: the largest id gets no entry.
ExtendColorsOffByOne(colors, mx, draws) ==
    IF Len(colors) < mx
    THEN ExtendColorsOffByOne(Append(colors, Head(draws)), mx, Tail(draws))
    ELSE colors

RECURSIVE ExtendColors(_, _, _)
\* while len(colors) <= predictions.max(): colors.append(<random color>)
ExtendColors(colors, mx, draws) ==
    IF Len(colors) <= mx
    THEN ExtendColors(Append(colors, Head(draws)), mx, Tail(draws))
    ELSE colors

\* The local list `colors` after the extension loop.
Palette(predictions, draws) ==
    ExtendColors(FixedColors, MaxOf(predictions), draws)

RECURSIVE PaintFrom(_, _, _, _)
\* for class_id in range(len(colors)): colored_mask[predictions == class_id] = colors[class_id]
PaintFrom(px, predictions, colors, class_id) ==
    IF class_id >= Len(colors)
    THEN px
    ELSE PaintFrom([p \in DOMAIN px |->
                       IF predictions[p] = class_id
                       THEN colors[class_id + 1] ELSE px[p]],
                   predictions, colors, class_id + 1)

\* predictions.shape as <<h, w>>
Shape(predictions) ==
    <<SetMax({p[1] : p \in DOMAIN predictions}),
      SetMax({p[2] : p \in DOMAIN predictions})>>

\* create_colored_mask with the local list `colors` already built.
ColoredMask(predictions, colors) ==
    [w |-> Shape(predictions)[2], h |-> Shape(predictions)[1], ch |-> 3,
     px |-> PaintFrom([p \in DOMAIN predictions |-> <<0, 0, 0>>],
                      predictions, colors, 0)]

create_colored_mask(predictions, draws) ==
    ColoredMask(predictions, Palette(predictions, draws))

\* ------------------------------------------------------------ cv2 / PIL
\* cv2.resize(src, (W, H)) with the default bilinear interpolation:
\* half-pixel centres, edges clamped, result rounded to nearest.  The
\* library's fixed-point quantisation of the weights is not modelled.
ResizeRaises(W, H) == W <= 0 \/ H <= 0

SrcCoord(d, srcLen, dstLen) ==
    LET n  == (2 * d + 1) * srcLen - dstLen
        dn == 2 * dstLen
        s  == n \div dn
    IN  IF s < 0 THEN [i0 |-> 0, i1 |-> 0, f |-> 0]
        ELSE IF s >= srcLen - 1
             THEN [i0 |-> srcLen - 1, i1 |-> srcLen - 1, f |-> 0]
             ELSE [i0 |-> s, i1 |-> s + 1, f |-> n - s * dn]

resize(src, W, H) ==
    [w |-> W, h |-> H, ch |-> src.ch,
     px |-> [p \in Cells(H, W) |->
        LET cy == SrcCoord(p[1] - 1, src.h, H)
            cx == SrcCoord(p[2] - 1, src.w, W)
            dy == 2 * H
            dx == 2 * W
        IN  [k \in 1..src.ch |->
               LET v00 == src.px[<<cy.i0 + 1, cx.i0 + 1>>][k]
                   v01 == src.px[<<cy.i0 + 1, cx.i1 + 1>>][k]
                   v10 == src.px[<<cy.i1 + 1, cx.i0 + 1>>][k]
                   v11 == src.px[<<cy.i1 + 1, cx.i1 + 1>>][k]
                   num == (dy - cy.f) * ((dx - cx.f) * v00 + cx.f * v01)
                          + cy.f * ((dx - cx.f) * v10 + cx.f * v11)
               IN  (2 * num + dy * dx) \div (2 * dy * dx)]]]

\* cv2.cvtColor(a, cv2.COLOR_GRAY2RGB): the grey value in all three channels.
GRAY2RGB(a) ==
    [w |-> a.w, h |-> a.h, ch |-> 3,
     px |-> [p \in DOMAIN a.px |-> <<a.px[p][1], a.px[p][1], a.px[p][1]>>]]

\* The fourth channel dropped with the first three in reverse order.
RGBA2BGR(a) ==
    [w |-> a.w, h |-> a.h, ch |-> 3,
     px |-> [p \in DOMAIN a.px |-> <<a.px[p][3], a.px[p][2], a.px[p][1]>>]]

\* cv2.cvtColor(a, cv2.COLOR_RGBA2RGB): the fourth channel dropped.
RGBA2RGB(a) ==
    [w |-> a.w, h |-> a.h, ch |-> 3,
     px |-> [p \in DOMAIN a.px |-> <<a.px[p][1], a.px[p][2], a.px[p][3]>>]]

\* Lines 92-96: np.array(image), made 3-channel when it is 2-D or 4-channel.
NormalizeOriginal(image) ==
    IF image.ch = 1 THEN GRAY2RGB(image)
    ELSE IF image.ch = 4 THEN RGBA2RGB(image)
    ELSE image

\* Lines 99-100: the mask made 3-channel when it is 2-D.
NormalizeMask(mask) == IF mask.ch = 1 THEN GRAY2RGB(mask) ELSE mask

\* alpha = 0.6 as the fraction AlphaNum / AlphaDen.
AlphaNum == 6

AlphaDen == 10

\* Truncation in place of rounding.
cvFloor(n, d) == n \div d

\* cvRound: the nearest integer to n / d (d > 0), ties to the even one.
cvRound(n, d) ==
    LET q == n \div d
        r == n - q * d
    IN  IF 2 * r < d THEN q
        ELSE IF 2 * r > d THEN q + 1
        ELSE IF q % 2 = 0 THEN q ELSE q + 1

\* saturate_cast<uchar>
saturate(v) == IF v < 0 THEN 0 ELSE IF v > 255 THEN 255 ELSE v

\* One channel of cv2.addWeighted(a, alpha, b, 1 - alpha, 0) on uint8.
addWeightedValue(o, m) ==
    saturate(cvRound(AlphaNum * o + (AlphaDen - AlphaNum) * m, AlphaDen))

\* cv2.addWeighted rejects operands of different size or channel count.
addWeightedRaises(a, b) == a.w # b.w \/ a.h # b.h \/ a.ch # b.ch

addWeighted(a, b) ==
    [w |-> a.w, h |-> a.h, ch |-> a.ch,
     px |-> [p \in DOMAIN a.px |->
                [k \in 1..a.ch |-> addWeightedValue(a.px[p][k], b.px[p][k])]]]

\* image.convert('RGB') of the handlers, applied when the mode is not RGB:
\* grey replicated, alpha dropped.
ConvertRGB(image) ==
    IF image.ch = 3 THEN image
    ELSE IF image.ch <= 2 THEN GRAY2RGB(image)
    ELSE RGBA2RGB(image)

\* self.preprocess(image): Normalize with 3-element mean and std raises on a
\* tensor whose channel count is not 3; on a zero-area image the resampling
\* of the library may or may not raise.
PreprocessOutcomes(image) ==
    IF image.ch # 3 THEN {"raise"}
    ELSE IF image.w = 0 \/ image.h = 0 THEN {"raise", "ok"}
    ELSE {"ok"}

\* ------------------------------------------------------------------ state
Reqs == {1, 2}

Stages == <<"Idle", "Preprocessing", "Inferring", "Rendering", "Reconciling",
            "Compositing", "Done">>

VARIABLES
    SEGMENTATION_AVAILABLE, \* main.py: the import of models.segmentation succeeded
    segmentation_model,     \* the module-level instance: "None" or "instance"
    model,                  \* self.model: "None" or "loaded"
    loop,                   \* the request running on the event loop, 0 when free
    req                     \* per request: handler position, locals, response

vars == <<SEGMENTATION_AVAILABLE, segmentation_model, model, loop, req>>

NoResponse ==
    [status |-> 0, original_image |-> NoImage, segmented_image |-> NoImage,
     segmentation_available |-> FALSE]

InitReq ==
    [entry |-> "none", pc |-> "NotStarted", contents |-> NoImage,
     image |-> NoImage, stage |-> "NotCalled",
     output_predictions |-> NoClassMap, colors |-> << >>,
     segmentation_mask |-> NoImage, original_array |-> NoImage,
     result |-> NoImage, raised |-> FALSE,
     raisedAt |-> "None", fellBack |-> FALSE, modelCalls |-> 0,
     response |-> NoResponse, overlap |-> {}, prior |-> {}]

\* The process after start-up: the import failed, the constructor raised,
\* load_model failed (self.model = None), or the model is loaded.
Init ==
    /\ \E cfg \in {<<FALSE, "None", "None">>, <<TRUE, "None", "None">>,
                   <<TRUE, "instance", "None">>, <<TRUE, "instance", "loaded">>} :
          /\ SEGMENTATION_AVAILABLE = cfg[1]
          /\ segmentation_model = cfg[2]
          /\ model = cfg[3]
    /\ loop = 0
    /\ req = [r \in Reqs |-> InitReq]

InFlight == {q \in Reqs : req[q].pc \in {"Reading", "InSegment"}}

Finished == {q \in Reqs : req[q].pc \in {"Responded", "Returned"}}

\* ------------------------------------------------------- segment_image
\* if self.model is None: return image
ModelNotLoaded(s) ==
    [s EXCEPT !.stage = "Done", !.result = s.image, !.fellBack = TRUE]

\* The handler of the exception raising it again.
ReturnOriginalReraise(s, where) ==
    [s EXCEPT !.stage = "Done", !.raised = TRUE, !.raisedAt = where]

\* A failed inference tried once more.
ReturnOriginalRetry(s, where) ==
    IF where = "Inferring" /\ s.modelCalls < 2
    THEN s
    ELSE [s EXCEPT !.stage = "Done", !.result = s.image, !.raisedAt = where,
                   !.fellBack = TRUE]

\* except Exception as e: ... return image
ReturnOriginal(s, where) ==
    [s EXCEPT !.stage = "Done", !.result = s.image, !.raisedAt = where,
              !.fellBack = TRUE]

Running(r, stage) == req[r].pc = "InSegment" /\ req[r].stage = stage

CheckModel(r) ==
    /\ Running(r, "Idle")
    /\ req' = [req EXCEPT ![r] =
                 IF model = "None" THEN ModelNotLoaded(@)
                 ELSE [@ EXCEPT !.stage = "Preprocessing"]]
    /\ UNCHANGED <<SEGMENTATION_AVAILABLE, segmentation_model, model, loop>>

Preprocess(r) ==
    /\ Running(r, "Preprocessing")
    /\ \E o \in PreprocessOutcomes(req[r].image) :
          req' = [req EXCEPT ![r] =
                    IF o = "raise" THEN ReturnOriginal(@, "Preprocessing")
                    ELSE [@ EXCEPT !.stage = "Inferring"]]
    /\ UNCHANGED <<SEGMENTATION_AVAILABLE, segmentation_model, model, loop>>

\* self.model(input_batch) raises, or yields the class map of its argmax:
\* a map over the ids a <= b of `ids`, uniform (a = b) unless `mixed`.
Infer(r, ids, mixed) ==
    /\ Running(r, "Inferring")
    /\ \E raises \in BOOLEAN, a \in ids, b \in ids :
          /\ a <= b
          /\ mixed \/ a = b
          /\ req' = [req EXCEPT ![r] =
                       IF raises
                       THEN ReturnOriginal([@ EXCEPT !.modelCalls = @ + 1], "Inferring")
                       ELSE [@ EXCEPT !.modelCalls = @ + 1,
                                      !.output_predictions = MkClassMap(a, b),
                                      !.stage = "Rendering"]]
    /\ UNCHANGED <<SEGMENTATION_AVAILABLE, segmentation_model, model, loop>>

Render(r) ==
    /\ Running(r, "Rendering")
    /\ LET predictions == req[r].output_predictions
           n == NeededDraws(MaxOf(predictions))
       IN  \E outcome \in [1..n -> 0..(RandSamples - 1)] :
              LET draws == [i \in 1..n |-> RandColor(outcome[i])]
              IN  req' = [req EXCEPT ![r] =
                            [@ EXCEPT !.colors = Palette(predictions, draws),
                                      !.segmentation_mask =
                                          create_colored_mask(predictions, draws),
                                      !.stage = "Reconciling"]]
    /\ UNCHANGED <<SEGMENTATION_AVAILABLE, segmentation_model, model, loop>>

\* The size taken as (height, width).
OriginalSizeSwapped(image) == <<image.h, image.w>>

\* original_size = image.size
OriginalSize(image) == <<image.w, image.h>>

Reconcile(r) ==
    /\ Running(r, "Reconciling")
    /\ LET size == OriginalSize(req[r].image)
       IN  req' = [req EXCEPT ![r] =
                     IF ResizeRaises(size[1], size[2])
                     THEN ReturnOriginal(@, "Reconciling")
                     ELSE [@ EXCEPT
                             !.segmentation_mask =
                                 NormalizeMask(resize(@, size[1], size[2])),
                             !.original_array = NormalizeOriginal(req[r].image),
                             !.stage = "Compositing"]]
    /\ UNCHANGED <<SEGMENTATION_AVAILABLE, segmentation_model, model, loop>>

Composite(r) ==
    /\ Running(r, "Compositing")
    /\ LET a == req[r].original_array
           b == req[r].segmentation_mask
       IN  req' = [req EXCEPT ![r] =
                     IF addWeightedRaises(a, b)
                     THEN ReturnOriginal(@, "Compositing")
                     ELSE [@ EXCEPT !.result = addWeighted(a, b),
                                    !.stage = "Done"]]
    /\ UNCHANGED <<SEGMENTATION_AVAILABLE, segmentation_model, model, loop>>

\* A caller other than the handlers calls segment_image(image).
CallDirect(r, in) ==
    /\ req[r].pc = "NotStarted"
    /\ \E w \in in.dims, h \in in.dims, c \in in.chans, s \in in.seeds :
          req' = [req EXCEPT ![r] =
                    [@ EXCEPT !.entry = "direct", !.pc = "InSegment",
                              !.image = MkImage(w, h, c, s), !.stage = "Idle",
                              !.overlap = InFlight, !.prior = Finished]]
    /\ UNCHANGED <<SEGMENTATION_AVAILABLE, segmentation_model, model, loop>>

ReturnDirect(r) ==
    /\ req[r].entry = "direct"
    /\ Running(r, "Done")
    /\ req' = [req EXCEPT ![r].pc = "Returned"]
    /\ UNCHANGED <<SEGMENTATION_AVAILABLE, segmentation_model, model, loop>>

\* ------------------------------------------------------------ handlers
Failure(status) == [NoResponse EXCEPT !.status = status]

\* The dict returned by a handler.
ImagePair(original, segmented) ==
    [status |-> 200, original_image |-> original, segmented_image |-> segmented,
     segmentation_available |-> SEGMENTATION_AVAILABLE]

\* What Image.open makes of the bytes: it raises (NoImage), or the image.
Decode(decodable, image) == IF decodable THEN image ELSE NoImage

\* From the decoded image to the call of segment_image, or to the response
\* when the model is missing: `if SEGMENTATION_AVAILABLE and segmentation_model`.
AfterDecode(s, decoded) ==
    LET image == ConvertRGB(decoded)
    IN  IF decoded = NoImage
        THEN [s EXCEPT !.pc = "Responded", !.response = Failure(500)]
        ELSE IF SEGMENTATION_AVAILABLE /\ segmentation_model # "None"
        THEN [s EXCEPT !.pc = "InSegment", !.image = image, !.stage = "Idle"]
        ELSE [s EXCEPT !.pc = "Responded", !.image = image, !.fellBack = TRUE,
                       !.response = ImagePair(image, image)]

\* /upload up to `await file.read()`, where the handler yields the loop.
UploadReceive(r, in) ==
    /\ req[r].pc = "NotStarted"
    /\ loop = 0
    /\ \E isImageType \in BOOLEAN, decodable \in BOOLEAN,
          w \in in.dims, h \in in.dims, c \in in.chans, s \in in.seeds :
          req' = [req EXCEPT ![r] =
                    IF ~isImageType
                    THEN [@ EXCEPT !.entry = "upload", !.pc = "Responded",
                                   !.response = Failure(400),
                                   !.overlap = InFlight, !.prior = Finished]
                    ELSE [@ EXCEPT !.entry = "upload", !.pc = "Reading",
                                   !.contents = Decode(decodable, MkImage(w, h, c, s)),
                                   !.overlap = InFlight, !.prior = Finished]]
    /\ UNCHANGED <<SEGMENTATION_AVAILABLE, segmentation_model, model, loop>>

\* /upload resumed after the read: it runs without yielding to the response.
UploadResume(r) ==
    /\ req[r].pc = "Reading"
    /\ loop = 0
    /\ LET s == AfterDecode(req[r], req[r].contents)
       IN  /\ req' = [req EXCEPT ![r] = s]
           /\ loop' = IF s.pc = "InSegment" THEN r ELSE 0
    /\ UNCHANGED <<SEGMENTATION_AVAILABLE, segmentation_model, model>>

\* /segment-url: no await at all, the handler runs without yielding.
\* `downloaded`: the URL is well formed, the download succeeds and its
\* content type is an image type; otherwise the handler answers 400.
SegmentUrl(r, in) ==
    /\ req[r].pc = "NotStarted"
    /\ loop = 0
    /\ \E downloaded \in BOOLEAN, decodable \in BOOLEAN,
          w \in in.dims, h \in in.dims, c \in in.chans, s \in in.seeds :
          LET s0 == [req[r] EXCEPT !.entry = "segment_url",
                                   !.overlap = InFlight, !.prior = Finished]
              s1 == IF ~downloaded
                    THEN [s0 EXCEPT !.pc = "Responded", !.response = Failure(400)]
                    ELSE AfterDecode(s0, Decode(decodable, MkImage(w, h, c, s)))
          IN  /\ req' = [req EXCEPT ![r] = s1]
              /\ loop' = IF s1.pc = "InSegment" THEN r ELSE 0
    /\ UNCHANGED <<SEGMENTATION_AVAILABLE, segmentation_model, model>>

\* try: segmented_image = segment_image(image)  except: segmented_image = image
Segmented(s) == IF s.raised THEN s.image ELSE s.result

HandlerRespond(r) ==
    /\ req[r].entry \in {"upload", "segment_url"}
    /\ Running(r, "Done")
    /\ loop = r
    /\ req' = [req EXCEPT ![r] =
                 [@ EXCEPT !.pc = "Responded",
                           !.response = ImagePair(req[r].image, Segmented(req[r]))]]
    /\ loop' = 0
    /\ UNCHANGED <<SEGMENTATION_AVAILABLE, segmentation_model, model>>

\* ------------------------------------------------------- specifications
\* One request at a time, by either handler or by a direct call, over all
\* sampled images and class maps.
SoloReqs == {1}

Next ==
    \E r \in SoloReqs :
        \/ UploadReceive(r, DecodedImage)
        \/ UploadResume(r)
        \/ SegmentUrl(r, DecodedImage)
        \/ CallDirect(r, AnyImage)
        \/ CheckModel(r)
        \/ Preprocess(r)
        \/ Infer(r, ClassIdSample, TRUE)
        \/ Render(r)
        \/ Reconcile(r)
        \/ Composite(r)
        \/ HandlerRespond(r)
        \/ ReturnDirect(r)

Spec == Init /\ [][Next]_vars

\* Two requests in flight in one process, both through the handlers, on one
\* image and on uniform class maps.
ConcImage == [dims |-> 1..1, chans |-> 3..3, seeds |-> {85}]

ConcIds == {c \in 0..MaxClassId : c = 0 \/ c >= NumFixed}

NextConc ==
    \E r \in Reqs :
        \/ UploadReceive(r, ConcImage)
        \/ UploadResume(r)
        \/ SegmentUrl(r, ConcImage)
        \/ CheckModel(r)
        \/ Preprocess(r)
        \/ Infer(r, ConcIds, FALSE)
        \/ Render(r)
        \/ Reconcile(r)
        \/ Composite(r)
        \/ HandlerRespond(r)

SpecConc == Init /\ [][NextConc]_vars

\* The blend as a function of its operands: a run standing at the blend step
\* with a one-pixel original of value o and a one-pixel mask of value m, for
\* every o and m of the uint8 range.
OnePixel(v) == [w |-> 1, h |-> 1, ch |-> 3, px |-> [p \in Cells(1, 1) |-> <<v, v, v>>]]

InitBlend ==
    /\ SEGMENTATION_AVAILABLE = TRUE
    /\ segmentation_model = "instance"
    /\ model = "loaded"
    /\ loop = 0
    /\ \E o \in 0..255, m \in 0..255 :
          req = [r \in Reqs |->
                   IF r = 1
                   THEN [InitReq EXCEPT !.entry = "direct", !.pc = "InSegment",
                                        !.stage = "Compositing",
                                        !.image = OnePixel(o),
                                        !.original_array = OnePixel(o),
                                        !.segmentation_mask = OnePixel(m),
                                        !.modelCalls = 1]
                   ELSE InitReq]

NextBlend == Composite(1) \/ ReturnDirect(1)

SpecBlend == InitBlend /\ [][NextBlend]_vars

\* The channel normalization of lines 91-100 as a function of the source
\* image: a run standing after the rendering of a class map over the ids a
\* and b of the fixed palette, on an image of any mode, positive size and
\* sampled content.
InitNorm ==
    /\ SEGMENTATION_AVAILABLE = TRUE
    /\ segmentation_model = "instance"
    /\ model = "loaded"
    /\ loop = 0
    /\ \E w \in 1..MaxDim, h \in 1..MaxDim, c \in Channels, s \in PixelSeeds,
          a \in 0..1, b \in 0..1 :
          LET predictions == MkClassMap(15 * a, 15 * b)
          IN  req = [r \in Reqs |->
                       IF r = 1
                       THEN [InitReq EXCEPT
                               !.entry = "direct", !.pc = "InSegment",
                               !.stage = "Reconciling",
                               !.image = MkImage(w, h, c, s),
                               !.output_predictions = predictions,
                               !.colors = Palette(predictions, << >>),
                               !.segmentation_mask =
                                   create_colored_mask(predictions, << >>),
                               !.modelCalls = 1]
                       ELSE InitReq]

NextNorm == Reconcile(1) \/ Composite(1) \/ ReturnDirect(1)

SpecNorm == InitNorm /\ [][NextNorm]_vars

\* ---------------------------------------------------------------- claims
Done(r) == req[r].stage = "Done"

\* The fallback condition of a request: model missing, or an exception.
ModelMissing == ~SEGMENTATION_AVAILABLE \/ segmentation_model = "None" \/ model = "None"

Failed(r) == req[r].raisedAt # "None" \/ req[r].raised

\* C1: when the model is not loaded or a stage raises, segment_image raises
\* nothing and returns the original image; a handler whose image was decoded
\* answers 200 with the image pair, the segmented image being the original
\* when the model is missing or the pipeline failed.
C1_FallbackReturnsOriginal ==
    \A r \in Reqs :
        /\ Done(r) =>
              /\ ~req[r].raised
              /\ (model = "None" \/ req[r].raisedAt # "None")
                    => req[r].result = req[r].image
        /\ (req[r].pc = "Responded" /\ req[r].image # NoImage) =>
              /\ req[r].response.status = 200
              /\ req[r].response.original_image = req[r].image
              /\ (ModelMissing \/ Failed(r))
                    => req[r].response.segmented_image = req[r].image

\* C1 witness: a handler answered with the original after the inference raised.
C1_Witness ==
    \E r \in Reqs :
        /\ req[r].pc = "Responded"
        /\ req[r].raisedAt = "Inferring"
        /\ req[r].response.status = 200
        /\ req[r].response.segmented_image = req[r].image

\* The only indicator of a fallback that a response carries.
Degraded(response) == ~response.segmentation_available

\* C2: the degraded indicator of a result is true exactly when a fallback
\* path was taken, and then the segmented image equals the original.
C2_DegradedIffFallback ==
    \A r \in Reqs :
        (req[r].pc = "Responded" /\ req[r].response.status = 200) =>
            /\ Degraded(req[r].response) <=> req[r].fellBack
            /\ Degraded(req[r].response)
                  => req[r].response.segmented_image = req[r].response.original_image

InvalidGeometry(r) ==
    req[r].raisedAt # "None" /\ (req[r].image.w = 0 \/ req[r].image.h = 0)

DimensionMismatch(r) == req[r].raisedAt = "Compositing"

\* C3: a run that fails with InvalidGeometry or DimensionMismatch surfaces the
\* failure to its caller and does not return the original as the result.
C3_GeometryErrorsSurface ==
    \A r \in Reqs :
        (Done(r) /\ (InvalidGeometry(r) \/ DimensionMismatch(r))) =>
            /\ req[r].raised
            /\ req[r].result # req[r].image

Rendered(r) == req[r].colors # << >>

Paints(r, c) == \E p \in DOMAIN req[r].output_predictions : req[r].output_predictions[p] = c

ExtendedIds == NumFixed..MaxClassId

\* C4: two sequential renderings in one process paint a class id beyond the
\* fixed palette with the same color, and the later rendering keeps every
\* palette entry the earlier one created.
C4_MemoizedAcrossRenderings ==
    \A r1 \in Reqs, r2 \in Reqs :
        (Rendered(r1) /\ Rendered(r2) /\ r1 \in req[r2].prior) =>
            /\ \A c \in ExtendedIds :
                  (Paints(r1, c) /\ Paints(r2, c))
                      => req[r1].colors[c + 1] = req[r2].colors[c + 1]
            /\ \A i \in 1..Len(req[r1].colors) :
                  /\ i <= Len(req[r2].colors)
                  /\ req[r2].colors[i] = req[r1].colors[i]

\* C5: two requests in flight at the same time never render a class id
\* beyond the fixed palette with two different colors.
C5_NoRacingColors ==
    \A r1 \in Reqs, r2 \in Reqs :
        (Rendered(r1) /\ Rendered(r2) /\ r1 \in req[r2].overlap) =>
            \A c \in ExtendedIds :
                (Paints(r1, c) /\ Paints(r2, c))
                    => req[r1].colors[c + 1] = req[r2].colors[c + 1]

StageIndex(stage) ==
    IF stage = "NotCalled" THEN 0
    ELSE CHOOSE i \in 1..Len(Stages) : Stages[i] = stage

\* The escape edge: from a stage other than Idle and Done straight to Done
\* with the original image.
EscapeEdge(r) ==
    /\ req[r].stage \notin {"NotCalled", "Idle", "Done"}
    /\ req'[r].stage = "Done"
    /\ req'[r].result = req[r].image

\* The edge taken when self.model is None: from Idle straight to Done with
\* the original image.
ModelMissingEdge(r) ==
    /\ req[r].stage = "Idle"
    /\ model = "None"
    /\ req'[r].stage = "Done"
    /\ req'[r].result = req[r].image

ForwardEdge(r) == StageIndex(req'[r].stage) = StageIndex(req[r].stage) + 1

\* What holds of every step of a run whatever its edges: the model is invoked
\* at most once, and only by the Inferring stage; the mask is resized only
\* once it is colored; nothing follows Done.
RunDiscipline(r) ==
    /\ req'[r].modelCalls <= 1
    /\ req'[r].modelCalls # req[r].modelCalls => req[r].stage = "Inferring"
    /\ req'[r].segmentation_mask # req[r].segmentation_mask
          => req[r].stage \in {"Rendering", "Reconciling"}
    /\ (req[r].stage = "Reconciling" /\ req'[r].stage = "Compositing")
          => Rendered(r)
    /\ req[r].stage = "Done" =>
          /\ req'[r].stage = "Done"
          /\ req'[r].result = req[r].result
          /\ req'[r].modelCalls = req[r].modelCalls

\* C6 as stated: the stages in their fixed order, and the escape edge as the
\* only other transition.
C6_OnlyEscapeEdge ==
    [][\A r \in Reqs :
          /\ RunDiscipline(r)
          /\ req'[r].stage # req[r].stage => (ForwardEdge(r) \/ EscapeEdge(r))]_vars

\* C6 amended: the stages in their fixed order, each at most once; the other
\* transitions are the escape edge and the edge from Idle to Done with the
\* original image when the model is not loaded.
C6_StageOrder ==
    [][\A r \in Reqs :
          /\ RunDiscipline(r)
          /\ req'[r].stage # req[r].stage =>
                (ForwardEdge(r) \/ EscapeEdge(r) \/ ModelMissingEdge(r))]_vars

\* C6 witness: a run that went through every stage, the model invoked once.
C6_Witness ==
    \E r \in Reqs :
        /\ Done(r)
        /\ ~req[r].fellBack
        /\ req[r].modelCalls = 1
        /\ req[r].result.ch = 3

\* The model is loaded and its invocation did not raise.
WorkingModel(r) == model = "loaded" /\ req[r].raisedAt # "Inferring"

\* C7: an input of 1, 3 or 4 channels and positive size, with a working
\* model, yields a segmented image of 3 channels and of the input's size.
C7_ThreeChannelSameSize ==
    \A r \in Reqs :
        (/\ Done(r)
         /\ req[r].image.ch \in {1, 3, 4}
         /\ req[r].image.w > 0 /\ req[r].image.h > 0
         /\ WorkingModel(r)) =>
            /\ req[r].result.ch = 3
            /\ req[r].result.w = req[r].image.w
            /\ req[r].result.h = req[r].image.h

\* C8: the mask of create_colored_mask has 3 channels and the class map's
\* height and width; every class id of the map is an index of the extended
\* palette and every pixel has the palette color of its cell's class id;
\* class id 0 is painted black.
C8_MaskFollowsPalette ==
    \A r \in Reqs :
        req[r].stage = "Reconciling" =>
            LET predictions == req[r].output_predictions
                mask == req[r].segmentation_mask
                colors == req[r].colors
            IN  /\ mask.ch = 3
                /\ <<mask.h, mask.w>> = Shape(predictions)
                /\ DOMAIN mask.px = DOMAIN predictions
                /\ \A p \in DOMAIN predictions :
                      /\ predictions[p] + 1 \in 1..Len(colors)
                      /\ mask.px[p] = colors[predictions[p] + 1]
                      /\ predictions[p] = 0 => mask.px[p] = <<0, 0, 0>>

\* C8 witness: a rendered class map with class 0 and an id beyond the fixed
\* palette.
C8_Witness ==
    \E r \in Reqs :
        /\ req[r].stage = "Reconciling"
        /\ Paints(r, 0)
        /\ Paints(r, NumFixed)
        /\ req[r].segmentation_mask.px[<<1, 2>>] = req[r].colors[NumFixed + 1]

\* C9: at the blend step the normalized original and the resized mask have
\* the same width, the same height and 3 channels each.
C9_BlendOperandsAgree ==
    \A r \in Reqs :
        (req[r].stage = "Compositing" /\ req[r].image.ch \in {1, 3, 4}) =>
            LET a == req[r].original_array
                b == req[r].segmentation_mask
            IN  /\ a.w = b.w
                /\ a.h = b.h
                /\ a.ch = 3
                /\ b.ch = 3

\* C9 witness: a run at the blend step on an image that is not square.
C9_Witness ==
    \E r \in Reqs :
        /\ req[r].stage = "Compositing"
        /\ req[r].image.w # req[r].image.h
        /\ req[r].segmentation_mask.w = req[r].image.w

\* out is the integer nearest to 0.6 * o + 0.4 * m, within 0..255.
NearestBlend(out, o, m) ==
    /\ out \in 0..255
    /\ 2 * (10 * out - (6 * o + 4 * m)) <= 10
    /\ 2 * ((6 * o + 4 * m) - 10 * out) <= 10

\* C10: every channel of every blended pixel is round(0.6 * o + 0.4 * m)
\* clamped to 0..255; black blended with black stays black.
C10_BlendIsRoundedMix ==
    \A r \in Reqs :
        (Done(r) /\ ~req[r].fellBack) =>
            \A p \in DOMAIN req[r].result.px : \A k \in 1..3 :
                LET o == req[r].original_array.px[p][k]
                    m == req[r].segmentation_mask.px[p][k]
                    out == req[r].result.px[p][k]
                IN  /\ NearestBlend(out, o, m)
                    /\ (o = 0 /\ m = 0) => out = 0

\* C10 witness: a blend that rounds up, and black on black.
C10_Witness ==
    \E r \in Reqs :
        /\ Done(r) /\ ~req[r].fellBack
        /\ req[r].original_array.px[<<1, 1>>][1] = 1
        /\ req[r].segmentation_mask.px[<<1, 1>>][1] = 0
        /\ req[r].result.px[<<1, 1>>][1] = 1

\* C11: the normalized original has the width and height of the source
\* image; a 1-channel source gives 3 channels all equal to the grey value of
\* the pixel; a 4-channel source gives its first three channels unchanged,
\* the fourth dropped; a 3-channel source passes through unchanged.
C11_ChannelNormalization ==
    \A r \in Reqs :
        (req[r].stage = "Compositing" /\ req[r].image.ch \in {1, 3, 4}) =>
            LET image == req[r].image
                a == req[r].original_array
            IN  /\ a.w = image.w
                /\ a.h = image.h
                /\ a.ch = 3
                /\ DOMAIN a.px = DOMAIN image.px
                /\ \A p \in DOMAIN image.px :
                      /\ image.ch = 1 =>
                            \A k \in 1..3 : a.px[p][k] = image.px[p][1]
                      /\ image.ch = 4 =>
                            \A k \in 1..3 : a.px[p][k] = image.px[p][k]
                /\ image.ch = 3 => a = image

\* C11 witness: a 4-channel source whose red and blue differ, normalized to
\* 3 channels.
C11_Witness ==
    \E r \in Reqs :
        /\ req[r].stage = "Compositing"
        /\ req[r].image.ch = 4
        /\ req[r].image.px[<<1, 1>>][1] # req[r].image.px[<<1, 1>>][3]
        /\ req[r].original_array.ch = 3

\* The values one channel of a new palette entry can take.
ChannelOutcomes == randint(0, 255)

\* C12: when the largest class id of a class map exceeds the fixed palette,
\* the palette ends at that class id with its 21 fixed entries unchanged,
\* every channel of every new entry lies in 0..255, and the values a channel
\* of a new entry can take are exactly 0..255, 255 included.
C12_ExtensionDrawsFullRange ==
    \A r \in Reqs :
        (req[r].stage = "Reconciling"
         /\ MaxOf(req[r].output_predictions) >= NumFixed) =>
            LET colors == req[r].colors
            IN  /\ Len(colors) = MaxOf(req[r].output_predictions) + 1
                /\ SubSeq(colors, 1, NumFixed) = FixedColors
                /\ \A i \in (NumFixed + 1)..Len(colors) : \A k \in 1..3 :
                       colors[i][k] \in 0..255
                /\ \A v \in 0..255 : v \in ChannelOutcomes
                /\ \A v \in ChannelOutcomes : v \in 0..255

====
